---- MODULE Spec2Model ----
(***************************************************************************)
(* Model of the JSON analysis pipeline of vicky-co-2/tools:                *)
(*   json_utils.py    load_json_file, validate_json_format,                *)
(*                    json_to_dataframe, get_json_structure                *)
(*   data_analyzer.py JSONDataAnalyzer                                     *)
(*   visualizer.py    JSONVisualizer                                       *)
(* A JSON value is a record [t, n, s, kv]: t is the Python type of the     *)
(* parsed value, n the value of a number, s the value of a string and kv   *)
(* the ordered children: <<[k |-> key, v |-> value], ...>> for an object   *)
(* (dict, insertion order) and the same with k = "" for an array (list).   *)
(***************************************************************************)
EXTENDS Integers, Sequences, FiniteSets, TLC

VARIABLES source, valid, loaded, structure, table, analyzer, call

vars == <<source, valid, loaded, structure, table, analyzer, call>>

(***************************************************************************)
(* Bounds of the model.                                                    *)
(***************************************************************************)
\* longest top-level array whose elements are drawn from SmallElems
MaxElems == 2

(***************************************************************************)
(* JSON values as json.load returns them.                                  *)
(***************************************************************************)
JNull == [t |-> "NoneType", n |-> 0, s |-> "", kv |-> <<>>]

JInt(i) == [t |-> "int", n |-> i, s |-> "", kv |-> <<>>]

JStr(x) == [t |-> "str", n |-> 0, s |-> x, kv |-> <<>>]

JBool(b) == [t |-> "bool", n |-> IF b THEN 1 ELSE 0, s |-> "", kv |-> <<>>]

JObj(pairs) == [t |-> "dict", n |-> 0, s |-> "", kv |-> pairs]

JArr(elems) ==
  [t |-> "list", n |-> 0, s |-> "",
   kv |-> [i \in 1..Len(elems) |-> [k |-> "", v |-> elems[i]]]]

isinstance_dict(v) == v.t = "dict"

isinstance_list(v) == v.t = "list"

\* len() of a dict or a list
len(v) == Len(v.kv)

(***************************************************************************)
(* The bounded input domain.                                               *)
(***************************************************************************)
Keys == {"a", "b"}

\* the key sequences of an object over Keys: every subset in every order
KeyOrders == {<<>>, <<"a">>, <<"b">>, <<"a", "b">>, <<"b", "a">>}

Scalars == {JNull, JInt(1), JStr("x"), JBool(TRUE)}

\* the objects whose keys, in order, are ks and whose values are drawn from vals
ObjectsOver(ks, vals) ==
  {JObj([i \in 1..Len(ks) |-> [k |-> ks[i], v |-> f[i]]]) : f \in [1..Len(ks) -> vals]}

Objects(vals) == UNION {ObjectsOver(ks, vals) : ks \in KeyOrders}

Arrays == {JArr(<<>>), JArr(<<JInt(1)>>), JArr(<<JObj(<<[k |-> "a", v |-> JInt(1)]>>)>>),
           JArr(<<JArr(<<JInt(1)>>)>>)}

InnerObjects == Objects({JInt(1), JNull, JArr(<<JInt(1)>>)})

OuterObjects == Objects(Scalars \cup Arrays \cup InnerObjects)

\* elements of the longer top-level arrays
SmallElems ==
  Scalars \cup {JArr(<<JInt(1)>>)}
    \cup ObjectsOver(<<"a">>, Scalars \cup {JArr(<<JInt(1)>>)})
    \cup ObjectsOver(<<"a", "b">>, {JInt(1)})
    \cup ObjectsOver(<<"b", "a">>, {JInt(1)})
    \cup {JObj(<<[k |-> "a", v |-> JObj(<<[k |-> "b", v |-> JInt(1)]>>)],
                 [k |-> "b", v |-> JInt(1)]>>)}

SeqsUpTo(S, n) == UNION {[1..m -> S] : m \in 0..n}

JsonValues ==
  Scalars \cup OuterObjects
    \cup {JArr(es) : es \in SeqsUpTo(Scalars \cup Arrays \cup OuterObjects, 1)}
    \cup {JArr(es) : es \in SeqsUpTo(SmallElems, MaxElems)}

(***************************************************************************)
(* Input sources: what a path names on disk.                               *)
(*   kind    "missing" | "dir" | "file"                                    *)
(*   size    what os.path.getsize reports                                  *)
(*   content "json" (UTF-8 text of a JSON document, parsing to data),      *)
(*           "malformed" (UTF-8 text that is no JSON document),            *)
(*           "nonutf8" (bytes that are no UTF-8 text)                      *)
(***************************************************************************)
max_size == 5 * 1024 * 1024

Src(kind, size, content, data) ==
  [kind |-> kind, size |-> size, content |-> content, data |-> data]

Sources ==
  {Src("missing", 0, "json", JNull), Src("dir", 4096, "json", JNull)}
    \cup {Src("file", sz, "malformed", JNull) : sz \in {0, 64, max_size, max_size + 1}}
    \cup {Src("file", sz, "nonutf8", JNull) : sz \in {1, 64, max_size, max_size + 1}}
    \cup {Src("file", sz, "json", d) : sz \in {max_size, max_size + 1}, d \in Scalars}
    \cup {Src("file", 64, "json", d) : d \in JsonValues}

(***************************************************************************)
(* Python exceptions: issubclass(e, c) for the classes the code raises     *)
(* and catches.                                                            *)
(***************************************************************************)
issubclass(e, c) ==
  \/ e = c
  \/ c = "Exception"
  \/ c = "OSError" /\ e \in {"FileNotFoundError", "IsADirectoryError"}
  \/ c = "ValueError" /\ e \in {"JSONDecodeError", "UnicodeDecodeError"}

(***************************************************************************)
(* json_utils.load_json_file.  The outcome records the exception raised    *)
(* ("" when the call returns), the value returned, and whether the file    *)
(* was opened and whether its text reached the JSON parser.                *)
(***************************************************************************)
Outcome(exc, data, opened, parsed) ==
  [exc |-> exc, data |-> data, opened |-> opened, parsed |-> parsed]

os_path_exists(src) == src.kind # "missing"

size_exceeds(file_size) == file_size > max_size

load_json_file(src) ==
  IF ~os_path_exists(src) THEN Outcome("FileNotFoundError", JNull, FALSE, FALSE)
  ELSE IF size_exceeds(src.size) THEN Outcome("ValueError", JNull, FALSE, FALSE)
  ELSE IF src.kind = "dir" THEN Outcome("IsADirectoryError", JNull, FALSE, FALSE)
  ELSE IF src.content = "nonutf8" THEN Outcome("UnicodeDecodeError", JNull, TRUE, FALSE)
  ELSE IF src.content = "malformed" THEN Outcome("JSONDecodeError", JNull, TRUE, TRUE)
  ELSE Outcome("", src.data, TRUE, TRUE)

(***************************************************************************)
(* json_utils.validate_json_format: "True", "False", or the name of the    *)
(* exception that escapes the except clause.                               *)
(***************************************************************************)
validate_caught == {"FileNotFoundError", "JSONDecodeError", "ValueError"}

validate_json_format(src) ==
  LET r == load_json_file(src)
  IN  IF r.exc = "" THEN "True"
      ELSE IF \E c \in validate_caught : issubclass(r.exc, c) THEN "False"
      ELSE r.exc

(***************************************************************************)
(* Python dicts as ordered sequences of [k, v] pairs.                      *)
(***************************************************************************)
dict_keys(pairs) == [i \in 1..Len(pairs) |-> pairs[i].k]

dict_has(pairs, key) == \E i \in 1..Len(pairs) : pairs[i].k = key

dict_get(pairs, key) == pairs[CHOOSE i \in 1..Len(pairs) : pairs[i].k = key].v

\* d[key] = value: an existing key keeps its position, a new key is appended
dict_set(pairs, key, value) ==
  IF dict_has(pairs, key)
  THEN [i \in 1..Len(pairs) |-> IF pairs[i].k = key THEN [k |-> key, v |-> value] ELSE pairs[i]]
  ELSE Append(pairs, [k |-> key, v |-> value])

\* {**d1, **d2}
RECURSIVE dict_update(_, _)
dict_update(d1, d2) ==
  IF d2 = <<>> THEN d1
  ELSE dict_update(dict_set(d1, Head(d2).k, Head(d2).v), Tail(d2))

(***************************************************************************)
(* pandas.json_normalize with default arguments, as json_to_dataframe      *)
(* calls it: pandas/io/json/_normalize.py, pandas 1.3 and later, where a   *)
(* call without record_path and meta goes through _simple_json_normalize.  *)
(***************************************************************************)
sep == "."

\* new_key = f"{key_string}{separator}{key}", the leading separator removed
\* when key_string is empty
new_key(key_string, key) == IF key_string = "" THEN key ELSE key_string \o sep \o key

\* _normalise_json: depth-first walk of nested dicts; every value that is not
\* a dict is stored whole under its dotted key path
RECURSIVE normalise_json(_, _, _)
normalise_json(data, key_string, normalized_dict) ==
  IF isinstance_dict(data)
  THEN IF data.kv = <<>> THEN normalized_dict
       ELSE LET first == Head(data.kv)
                done  == normalise_json(first.v, new_key(key_string, first.k), normalized_dict)
            IN  normalise_json(JObj(Tail(data.kv)), key_string, done)
  ELSE dict_set(normalized_dict, key_string, data)

\* mutant: list values are taken for nested structures and left out of the
\* top-level part
normalise_json_ordered_no_lists(data) ==
  LET top_dict    == SelectSeq(data.kv, LAMBDA p : ~isinstance_dict(p.v) /\ ~isinstance_list(p.v))
      nested_dict == normalise_json(JObj(SelectSeq(data.kv, LAMBDA p : isinstance_dict(p.v))),
                                    "", <<>>)
  IN  JObj(dict_update(top_dict, nested_dict))

\* _normalise_json_ordered: the top-level keys whose values are not dicts
\* first, then the flattened dict-valued keys
normalise_json_ordered(data) ==
  LET top_dict    == SelectSeq(data.kv, LAMBDA p : ~isinstance_dict(p.v))
      nested_dict == normalise_json(JObj(SelectSeq(data.kv, LAMBDA p : isinstance_dict(p.v))),
                                    "", <<>>)
  IN  JObj(dict_update(top_dict, nested_dict))

\* mutant: an element that is no dict and no list is recorded under the
\* empty-string key
RECURSIVE simple_json_normalize_keeps_scalars(_)
simple_json_normalize_keeps_scalars(ds) ==
  IF isinstance_dict(ds) THEN normalise_json_ordered(ds)
  ELSE IF isinstance_list(ds)
  THEN JArr([i \in 1..len(ds) |-> simple_json_normalize_keeps_scalars(ds.kv[i].v)])
  ELSE JObj(<<[k |-> "", v |-> ds]>>)

\* _simple_json_normalize: a dict is flattened, a list is normalised element
\* by element, anything else gives the empty dict
RECURSIVE simple_json_normalize(_)
simple_json_normalize(ds) ==
  IF isinstance_dict(ds) THEN normalise_json_ordered(ds)
  ELSE IF isinstance_list(ds)
  THEN JArr([i \in 1..len(ds) |-> simple_json_normalize(ds.kv[i].v)])
  ELSE JObj(<<>>)

(***************************************************************************)
(* pandas.DataFrame from a list of normalised records.  A table is         *)
(* [columns, rows]: rows[i][j] is the cell of row i under columns[j].      *)
(***************************************************************************)
\* the cell of a key absent from a record (numpy nan)
NaN == [t |-> "float", n |-> 0, s |-> "nan", kv |-> <<>>]

Table(columns, rows) == [columns |-> columns, rows |-> rows]

EmptyDataFrame == Table(<<>>, <<>>)

\* mutant: the columns are the keys of the first record alone
unique_keys_first_record(records, seen) ==
  IF records = <<>> THEN seen ELSE dict_keys(Head(records).kv)

\* lib.fast_unique_multiple_list_gen: the keys of all records, first seen first
RECURSIVE unique_keys(_, _)
unique_keys(records, seen) ==
  IF records = <<>> THEN seen
  ELSE LET ks  == dict_keys(Head(records).kv)
           new == SelectSeq(ks, LAMBDA key : \A i \in 1..Len(seen) : seen[i] # key)
       IN  unique_keys(Tail(records), seen \o new)

\* lib.dicts_to_array
dicts_to_array(records, columns) ==
  [i \in 1..Len(records) |->
     [j \in 1..Len(columns) |->
        IF dict_has(records[i].kv, columns[j]) THEN dict_get(records[i].kv, columns[j])
        ELSE NaN]]

\* the label of positional column i (a RangeIndex label, an integer and so
\* distinct from every string key)
RangeLabel(i) == "#" \o <<"0", "1", "2", "3", "4", "5", "6", "7", "8", "9">>[i + 1]

max_width(records) ==
  LET ws == {len(records[i]) : i \in 1..Len(records)}
  IN  IF ws = {} THEN 0 ELSE CHOOSE w \in ws : \A u \in ws : u <= w

\* list(row): the elements of a list, the keys of a dict
row_items(row) ==
  IF isinstance_dict(row) THEN [j \in 1..len(row) |-> JStr(row.kv[j].k)]
  ELSE [j \in 1..len(row) |-> row.kv[j].v]

\* lib.to_object_array: ragged rows padded with None
to_object_array(records) ==
  [i \in 1..Len(records) |->
     [j \in 1..max_width(records) |->
        IF j <= len(records[i]) THEN row_items(records[i])[j] ELSE JNull]]

\* DataFrame(data) for a non-empty list of dicts and lists: "" and the table,
\* or the exception raised
DataFrame(data) ==
  LET records == [i \in 1..len(data) |-> data.kv[i].v]
  IN  IF isinstance_list(records[1])
      THEN [exc |-> "",
            df  |-> Table([j \in 1..max_width(records) |-> RangeLabel(j - 1)],
                          to_object_array(records))]
      ELSE IF \E i \in 1..Len(records) : ~isinstance_dict(records[i])
      THEN [exc |-> "AttributeError", df |-> EmptyDataFrame]
      ELSE LET columns == unique_keys(records, <<>>)
           IN  [exc |-> "", df |-> Table(columns, dicts_to_array(records, columns))]

\* mutant: a top-level dict is not wrapped into a one-element list but
\* iterated like any other iterable (list(data) gives its keys)
json_normalize_no_dict_branch(data) ==
  IF (isinstance_list(data) \/ isinstance_dict(data)) /\ len(data) = 0
  THEN [exc |-> "", df |-> EmptyDataFrame]
  ELSE IF isinstance_dict(data)
  THEN DataFrame(simple_json_normalize(JArr([i \in 1..len(data) |-> JStr(data.kv[i].k)])))
  ELSE IF isinstance_list(data) THEN DataFrame(simple_json_normalize(data))
  ELSE [exc |-> "NotImplementedError", df |-> EmptyDataFrame]

json_normalize(data) ==
  IF isinstance_list(data) /\ len(data) = 0 THEN [exc |-> "", df |-> EmptyDataFrame]
  ELSE IF isinstance_dict(data) THEN DataFrame(simple_json_normalize(JArr(<<data>>)))
  ELSE IF isinstance_list(data) THEN DataFrame(simple_json_normalize(data))
  ELSE [exc |-> "NotImplementedError", df |-> EmptyDataFrame]

(***************************************************************************)
(* json_utils.json_to_dataframe: every exception becomes ValueError.       *)
(***************************************************************************)
\* mutant: the exception of json_normalize is not wrapped
json_to_dataframe_unwrapped(json_data) == json_normalize(json_data)

json_to_dataframe(json_data) ==
  LET r == json_normalize(json_data)
  IN  IF r.exc = "" THEN r
      ELSE IF issubclass(r.exc, "Exception") THEN [exc |-> "ValueError", df |-> EmptyDataFrame]
      ELSE r

(***************************************************************************)
(* json_utils.get_json_structure.  A structure node is                     *)
(* [type, has_size, size, properties, items]: properties is the ordered    *)
(* mapping <<[k |-> key, v |-> node], ...>> of an object node, and items   *)
(* is <<node>> when the 'items' key is present and <<>> when it is not.    *)
(***************************************************************************)
Node(type, has_size, size, properties, items) ==
  [type |-> type, has_size |-> has_size, size |-> size,
   properties |-> properties, items |-> items]

\* mutant: no node for a null value
TypeNode_none_for_null(value) ==
  Node(IF value.t = "NoneType" THEN "" ELSE value.t, FALSE, 0, <<>>, <<>>)

\* {'type': type(value).__name__}
TypeNode(value) == Node(value.t, FALSE, 0, <<>>, <<>>)

\* current_path = f"{path}.{key}" if path else key
current_path(path, key) == IF path = "" THEN key ELSE path \o "." \o key

RECURSIVE get_json_structure(_, _)
\* the node stored under a key of an object (lines 81-88)
property_structure(value, path) ==
  IF isinstance_dict(value) THEN get_json_structure(value, path)
  ELSE IF isinstance_list(value)
  THEN Node("array", TRUE, len(value), <<>>,
            IF len(value) > 0 /\ isinstance_dict(value.kv[1].v)
            THEN <<get_json_structure(value.kv[1].v, path \o "[0]")>>
            ELSE <<>>)
  ELSE TypeNode(value)

get_json_structure(data, path) ==
  IF isinstance_dict(data)
  THEN Node("object", TRUE, len(data),
            [i \in 1..len(data) |->
               [k |-> data.kv[i].k,
                v |-> property_structure(data.kv[i].v, current_path(path, data.kv[i].k))]],
            <<>>)
  ELSE IF isinstance_list(data)
  THEN Node("array", TRUE, len(data), <<>>,
            IF len(data) > 0
            THEN IF isinstance_dict(data.kv[1].v)
                 THEN <<get_json_structure(data.kv[1].v, path \o "[0]")>>
                 ELSE <<TypeNode(data.kv[1].v)>>
            ELSE <<>>)
  ELSE TypeNode(data)

(***************************************************************************)
(* Column dtypes: lib.maybe_convert_objects on the cells of one column.    *)
(* Integers outside 64 bits (which pandas keeps as objects) are outside    *)
(* the input domain.                                                       *)
(***************************************************************************)
column_cells(df, j) == [i \in 1..Len(df.rows) |-> df.rows[i][j]]

cell_types(cells) == {cells[i].t : i \in 1..Len(cells)}

\* pd.isna of one cell: None or nan
isna(cell) == cell.t = "NoneType" \/ cell = NaN

maybe_convert_objects(cells) ==
  LET ts      == cell_types(cells)
      has_nan == \E i \in 1..Len(cells) : cells[i] = NaN
  IN  IF ts \cap {"str", "list", "dict"} # {} THEN "object"
      ELSE IF "bool" \in ts THEN (IF ts = {"bool"} THEN "bool" ELSE "object")
      ELSE IF "int" \in ts
      THEN (IF "NoneType" \in ts \/ has_nan THEN "float64" ELSE "int64")
      ELSE IF has_nan THEN "float64"
      ELSE "object"

dtype(df, j) == maybe_convert_objects(column_cells(df, j))

\* df.select_dtypes(include=...).columns
select_dtypes(df, include) ==
  LET idx == SelectSeq([j \in 1..Len(df.columns) |-> j], LAMBDA j : dtype(df, j) \in include)
  IN  [m \in 1..Len(idx) |-> df.columns[idx[m]]]

\* mutant: bool columns counted as numbers
np_number_with_bool == {"int64", "float64", "bool"}

np_number == {"int64", "float64"}

(***************************************************************************)
(* data_analyzer.JSONDataAnalyzer                                          *)
(***************************************************************************)
\* head(5) of the sample in _get_categorical_columns
SampleSize == 5

get_numeric_columns(df) == select_dtypes(df, np_number)

\* hash(val) raises TypeError for a list or a dict
hashable(val) == val.t \notin {"list", "dict"}

\* mutant: every non-null cell of the column is sampled
sample_values_whole_column(cells) == SelectSeq(cells, LAMBDA c : ~isna(c))

\* self.df[col].dropna().head(5)
sample_values(cells) ==
  LET nonnull == SelectSeq(cells, LAMBDA c : ~isna(c))
  IN  SubSeq(nonnull, 1, IF Len(nonnull) < SampleSize THEN Len(nonnull) ELSE SampleSize)

column_index(df, col) == CHOOSE j \in 1..Len(df.columns) : df.columns[j] = col

get_categorical_columns(df) ==
  SelectSeq(select_dtypes(df, {"object"}),
            LAMBDA col :
              LET sample == sample_values(column_cells(df, column_index(df, col)))
              IN  \A i \in 1..Len(sample) : hashable(sample[i]))

\* JSONDataAnalyzer.__init__: the exception of json_to_dataframe propagates
NoAnalyzer(exc) ==
  [exc |-> exc, df |-> EmptyDataFrame, numeric_columns |-> <<>>, categorical_columns |-> <<>>]

JSONDataAnalyzer(json_data) ==
  LET r == json_to_dataframe(json_data)
  IN  IF r.exc # "" THEN NoAnalyzer(r.exc)
      ELSE [exc |-> "", df |-> r.df,
            numeric_columns |-> get_numeric_columns(r.df),
            categorical_columns |-> get_categorical_columns(r.df)]

(***************************************************************************)
(* The state machine: a source is chosen; validate_json_format is called  *)
(* on it, then load_json_file (whatever validate_json_format answered: the *)
(* loader is also called on its own); a loaded value is described,         *)
(* flattened and handed to a new analyzer, in any order.  "unset" marks a  *)
(* call not yet made.                                                      *)
(***************************************************************************)
Unset == [exc |-> "unset"]

\* call: the last call made on the analyzer or the visualizer, with its
\* arguments and its outcome; NoCall before any
NoCall == [op |-> "none", args |-> <<>>, exc |-> "", msg |-> "", ret |-> <<>>]

Init ==
  /\ source \in Sources
  /\ valid = "unset"
  /\ loaded = Unset
  /\ structure = Unset
  /\ table = Unset
  /\ analyzer = Unset
  /\ call = NoCall

Validate ==
  /\ valid = "unset"
  /\ valid' = validate_json_format(source)
  /\ UNCHANGED <<source, loaded, structure, table, analyzer, call>>

Load ==
  /\ valid # "unset"
  /\ loaded = Unset
  /\ loaded' = load_json_file(source)
  /\ UNCHANGED <<source, valid, structure, table, analyzer, call>>

Describe ==
  /\ loaded # Unset /\ loaded.exc = ""
  /\ structure = Unset
  /\ structure' = [exc |-> "", node |-> get_json_structure(loaded.data, "")]
  /\ UNCHANGED <<source, valid, loaded, table, analyzer, call>>

Flatten ==
  /\ loaded # Unset /\ loaded.exc = ""
  /\ table = Unset
  /\ table' = json_to_dataframe(loaded.data)
  /\ UNCHANGED <<source, valid, loaded, structure, analyzer, call>>

NewAnalyzer ==
  /\ loaded # Unset /\ loaded.exc = ""
  /\ analyzer = Unset
  /\ analyzer' = JSONDataAnalyzer(loaded.data)
  /\ UNCHANGED <<source, valid, loaded, structure, table, call>>

Next == Validate \/ Load \/ Describe \/ Flatten \/ NewAnalyzer

Spec == Init /\ [][Next]_vars

(***************************************************************************)
(* The documented error kinds.                                             *)
(***************************************************************************)
NotFound == "FileNotFoundError"

SizeExceeded == "ValueError"

MalformedInput == "JSONDecodeError"

UnconvertibleStructure == "ValueError"

\* the source holds the UTF-8 text of a JSON document
ValidJson(src) == src.kind = "file" /\ src.content = "json"

(***************************************************************************)
(* C1: load_json_file returns the parsed value iff the source exists, is   *)
(* at most 5,242,880 bytes and holds valid JSON; otherwise it fails with   *)
(* the error of the first failing check in the order NotFound,             *)
(* SizeExceeded, MalformedInput; an oversize file is never opened or       *)
(* parsed.                                                                 *)
(***************************************************************************)
C1_LoadContract ==
  loaded # Unset =>
    /\ loaded.exc =
         (IF source.kind = "missing" THEN NotFound
          ELSE IF source.size > 5242880 THEN SizeExceeded
          ELSE IF ~ValidJson(source) THEN MalformedInput
          ELSE "")
    /\ loaded.exc = "" => loaded.data = source.data
    /\ source.size > 5242880 => ~loaded.opened /\ ~loaded.parsed

(***************************************************************************)
(* C2: validate_json_format never raises, for any source, and returns true *)
(* exactly when load_json_file on the same source succeeds.                *)
(***************************************************************************)
C2_ValidateNeverRaises ==
  valid # "unset" =>
    /\ valid \in {"True", "False"}
    /\ valid = "True" <=> load_json_file(source).exc = ""

(***************************************************************************)
(* Reference notions of the flattening contract, stated on the JSON value  *)
(* itself.                                                                 *)
(***************************************************************************)
IsScalar(v) == v.t \in {"NoneType", "int", "float", "str", "bool"}

\* the elements of a top-level array
Elems(data) == [i \in 1..Len(data.kv) |-> data.kv[i].v]

\* depth-first walk of an object in insertion order: the leaf key-paths
\* (dot-joined from the root) with the values found there
RECURSIVE LeafPaths(_, _)
LeafPaths(pairs, prefix) ==
  IF Len(pairs) = 0 THEN <<>>
  ELSE LET p    == Head(pairs)
           name == IF prefix = "" THEN p.k ELSE prefix \o "." \o p.k
       IN  (IF p.v.t = "dict" THEN LeafPaths(p.v.kv, name) ELSE <<[k |-> name, v |-> p.v]>>)
             \o LeafPaths(Tail(pairs), prefix)

Names(leaves) == [i \in 1..Len(leaves) |-> leaves[i].k]

\* the names of a sequence, each kept at its first occurrence
RECURSIVE FirstSeen(_)
FirstSeen(names) ==
  IF Len(names) = 0 THEN <<>>
  ELSE LET init == FirstSeen(SubSeq(names, 1, Len(names) - 1))
           last == names[Len(names)]
       IN  IF \E i \in 1..Len(init) : init[i] = last THEN init ELSE Append(init, last)

RECURSIVE Concat(_)
Concat(seqs) == IF Len(seqs) = 0 THEN <<>> ELSE Head(seqs) \o Concat(Tail(seqs))

\* the leaves of one element (none for an element that is no object)
ElemLeaves(e) == IF e.t = "dict" THEN LeafPaths(e.kv, "") ELSE <<>>

\* the leaves of one element, those directly under the element first
ElemLeavesTopFirst(e) ==
  IF e.t = "dict"
  THEN SelectSeq(e.kv, LAMBDA p : p.v.t # "dict")
         \o LeafPaths(SelectSeq(e.kv, LAMBDA p : p.v.t = "dict"), "")
  ELSE <<>>

HasLeaf(e, name) == \E m \in 1..Len(ElemLeaves(e)) : ElemLeaves(e)[m].k = name

LeafValue(e, name) ==
  ElemLeaves(e)[CHOOSE m \in 1..Len(ElemLeaves(e)) : ElemLeaves(e)[m].k = name].v

AllLeafNames(es) == UNION {{ElemLeaves(es[i])[m].k : m \in 1..Len(ElemLeaves(es[i]))}
                             : i \in 1..Len(es)}

Range(f) == {f[i] : i \in 1..Len(f)}

ArrayOfObjects(data) ==
  data.t = "list" /\ \A i \in 1..Len(data.kv) : data.kv[i].v.t = "dict"

Flattened == table # Unset /\ table.exc = ""

\* absent key-paths give null cells, present ones the value found there
CellsFollowLeaves(es, df) ==
  \A i \in 1..Len(es) : \A j \in 1..Len(df.columns) :
    IF HasLeaf(es[i], df.columns[j])
    THEN df.rows[i][j] = LeafValue(es[i], df.columns[j])
    ELSE isna(df.rows[i][j])

(***************************************************************************)
(* C3 as stated: for every top-level array of objects the column set is    *)
(* the union of all leaf key-paths, the column order is the order in which *)
(* the depth-first walk of the elements first sees them, and the cell of a *)
(* key-path absent from a row's element is null.                           *)
(***************************************************************************)
C3_DepthFirstColumnOrder ==
  (table # Unset /\ ArrayOfObjects(loaded.data)) =>
    LET es == Elems(loaded.data)
    IN  /\ table.exc = ""
        /\ Range(table.df.columns) = AllLeafNames(es)
        /\ table.df.columns = FirstSeen(Concat([i \in 1..Len(es) |-> Names(ElemLeaves(es[i]))]))
        /\ CellsFollowLeaves(es, table.df)

(***************************************************************************)
(* C3 amended: as stated, except for the order within one element: the     *)
(* key-paths of the values directly under the element that are not objects *)
(* come first, in insertion order, then the leaf key-paths under its       *)
(* object-valued keys, depth-first; columns are ordered by first           *)
(* occurrence over the elements taken in that order.                       *)
(***************************************************************************)
C3_UnionColumnsTopFirstOrder ==
  (table # Unset /\ ArrayOfObjects(loaded.data)) =>
    LET es == Elems(loaded.data)
    IN  /\ table.exc = ""
        /\ Range(table.df.columns) = AllLeafNames(es)
        /\ table.df.columns =
             FirstSeen(Concat([i \in 1..Len(es) |-> Names(ElemLeavesTopFirst(es[i]))]))
        /\ Len(table.df.rows) = Len(es)
        /\ CellsFollowLeaves(es, table.df)

\* a non-uniform array of objects was flattened: some row has a null cell
\* for a key-path its element lacks, and some element has a nested leaf
\* that the depth-first walk meets before a direct one
C3_Witness ==
  /\ Flattened /\ ArrayOfObjects(loaded.data) /\ Len(loaded.data.kv) >= 2
  /\ \E i \in 1..Len(table.df.rows) : \E j \in 1..Len(table.df.columns) :
       ~HasLeaf(Elems(loaded.data)[i], table.df.columns[j]) /\ table.df.rows[i][j] = NaN
  /\ \E i \in 1..Len(loaded.data.kv) :
       Names(ElemLeaves(Elems(loaded.data)[i])) # Names(ElemLeavesTopFirst(Elems(loaded.data)[i]))

(***************************************************************************)
(* C4 as stated: an array of N uniform objects sharing key set K gives     *)
(* exactly N rows and |K| columns with zero null cells.                    *)
(***************************************************************************)
KeySet(e) == {e.kv[m].k : m \in 1..Len(e.kv)}

Uniform(data) ==
  /\ ArrayOfObjects(data) /\ Len(data.kv) >= 1
  /\ \A i \in 1..Len(data.kv) : KeySet(data.kv[i].v) = KeySet(data.kv[1].v)

NoNullCells(df) ==
  \A i \in 1..Len(df.rows) : \A j \in 1..Len(df.rows[i]) : ~isna(df.rows[i][j])

ShapeIs(df, n, k) ==
  /\ Len(df.rows) = n /\ Len(df.columns) = k
  /\ \A i \in 1..Len(df.rows) : Len(df.rows[i]) = k

C4_UniformObjects ==
  (table # Unset /\ Uniform(loaded.data)) =>
    /\ table.exc = ""
    /\ ShapeIs(table.df, Len(loaded.data.kv), Cardinality(KeySet(loaded.data.kv[1].v)))
    /\ NoNullCells(table.df)

(***************************************************************************)
(* C4 amended: an array of N >= 1 uniform objects sharing key set K, none  *)
(* of whose values is null or an object, gives exactly N rows and |K|      *)
(* columns with zero null cells.                                           *)
(***************************************************************************)
\* no value directly under the elements is null or an object
FlatNonNull(data) ==
  \A i \in 1..Len(data.kv) : \A m \in 1..Len(data.kv[i].v.kv) :
    data.kv[i].v.kv[m].v.t \notin {"NoneType", "dict"}

C4_UniformFlatNonNullObjects ==
  (table # Unset /\ Uniform(loaded.data) /\ FlatNonNull(loaded.data)) =>
    /\ table.exc = ""
    /\ ShapeIs(table.df, Len(loaded.data.kv), Cardinality(KeySet(loaded.data.kv[1].v)))
    /\ NoNullCells(table.df)

\* two uniform objects with two keys each, in different key order and with an
\* array among the values of one-key objects elsewhere, were flattened
C4_Witness ==
  /\ Flattened /\ Uniform(loaded.data) /\ FlatNonNull(loaded.data)
  /\ Len(loaded.data.kv) = 2
  /\ Cardinality(KeySet(loaded.data.kv[1].v)) = 2
  /\ dict_keys(loaded.data.kv[1].v.kv) # dict_keys(loaded.data.kv[2].v.kv)

(***************************************************************************)
(* C5: the row count equals the number of top-level elements (one for a    *)
(* top-level object, N for a top-level array of N elements); an array that *)
(* is the value of a key at any depth is stored whole as one cell under    *)
(* that key-path and adds no rows and no columns.                          *)
(***************************************************************************)
TopElems(data) == IF data.t = "dict" THEN <<data>> ELSE Elems(data)

\* the elements are laid out by key (the first one is no array)
KeyedLayout(data) == data.t = "dict" \/ (Len(data.kv) > 0 /\ data.kv[1].v.t # "list")

EmptyContainer(data) == data.t \in {"list", "dict"} /\ Len(data.kv) = 0

C6_ScalarsAndEmptiesFail ==
  /\ (table # Unset /\ (IsScalar(loaded.data) \/ EmptyContainer(loaded.data)))
       => table.exc = UnconvertibleStructure
  /\ (analyzer # Unset /\ (IsScalar(loaded.data) \/ EmptyContainer(loaded.data)))
       => analyzer.exc = UnconvertibleStructure

(***************************************************************************)
(* C6 amended: json_to_dataframe fails with UnconvertibleStructure for     *)
(* every top-level bare scalar, and JSONDataAnalyzer on such a value       *)
(* surfaces the same error; the empty array gives a table of 0 rows and 0  *)
(* columns and the empty object a table of 1 row and 0 columns, and an     *)
(* analyzer is produced for both.                                          *)
(***************************************************************************)
C6_ScalarsFailEmptiesConvert ==
  /\ (table # Unset /\ IsScalar(loaded.data)) => table.exc = UnconvertibleStructure
  /\ (analyzer # Unset /\ IsScalar(loaded.data)) => analyzer.exc = UnconvertibleStructure
  /\ (table # Unset /\ EmptyContainer(loaded.data)) =>
       /\ table.exc = ""
       /\ ShapeIs(table.df, IF loaded.data.t = "dict" THEN 1 ELSE 0, 0)
  /\ (analyzer # Unset /\ EmptyContainer(loaded.data)) =>
       /\ analyzer.exc = ""
       /\ ShapeIs(analyzer.df, IF loaded.data.t = "dict" THEN 1 ELSE 0, 0)

\* both the conversion and the construction of an analyzer were tried on a
\* bare string and failed
C6_Witness ==
  /\ table # Unset /\ analyzer # Unset
  /\ loaded.data.t = "str"
  /\ table.exc = "ValueError" /\ analyzer.exc = "ValueError"

(***************************************************************************)
(* C7 as stated: an element of a top-level array that is no object does    *)
(* not make the conversion fail and is not dropped: it has its own row and *)
(* its value is recorded in the column named by the empty string.          *)
(***************************************************************************)
HasNonObject(data) ==
  data.t = "list" /\ \E i \in 1..Len(data.kv) : data.kv[i].v.t # "dict"

ColumnOf(df, name) == CHOOSE j \in 1..Len(df.columns) : df.columns[j] = name

C7_NonObjectUnderEmptyKey ==
  (table # Unset /\ HasNonObject(loaded.data)) =>
    /\ table.exc = ""
    /\ Len(table.df.rows) = Len(loaded.data.kv)
    /\ "" \in Range(table.df.columns)
    /\ \A i \in 1..Len(loaded.data.kv) :
         loaded.data.kv[i].v.t # "dict" =>
           table.df.rows[i][ColumnOf(table.df, "")] = loaded.data.kv[i].v

(***************************************************************************)
(* C7 amended: in a top-level array whose elements are objects, scalars or *)
(* nulls, an element that is a scalar or null does not make the conversion *)
(* fail and keeps its own row, but its value is not recorded: it adds no   *)
(* column (none is named by the empty string) and every cell of its row is *)
(* null.                                                                   *)
(***************************************************************************)
NoArrayElems(data) ==
  data.t = "list" /\ \A i \in 1..Len(data.kv) : data.kv[i].v.t # "list"

C7_ScalarElementGivesNullRow ==
  (table # Unset /\ HasNonObject(loaded.data) /\ NoArrayElems(loaded.data)) =>
    /\ table.exc = ""
    /\ Len(table.df.rows) = Len(loaded.data.kv)
    /\ "" \notin Range(table.df.columns)
    /\ Range(table.df.columns) = AllLeafNames(Elems(loaded.data))
    /\ \A i \in 1..Len(loaded.data.kv) :
         IsScalar(loaded.data.kv[i].v) =>
           \A j \in 1..Len(table.df.columns) : table.df.rows[i][j] = NaN

\* an array of an object and a string was flattened: two rows, the string's
\* row holding a null cell
C7_Witness ==
  /\ Flattened /\ Len(loaded.data.kv) = 2 /\ NoArrayElems(loaded.data)
  /\ \E i \in 1..2 : loaded.data.kv[i].v.t = "str" /\ table.df.rows[i] = <<NaN>>
  /\ \E i \in 1..2 : loaded.data.kv[i].v.t = "dict"

(***************************************************************************)
(* C8: get_json_structure returns a structure node for every JSON value;   *)
(* for every object node, size equals the number of keys of the object and *)
(* properties has exactly one non-null child node per key.                 *)
(***************************************************************************)
Described == structure # Unset /\ structure.exc = ""

\* the node is a node at all (not None)
IsNode(node) == node.type # ""

RECURSIVE ObjectNodesOk(_, _)
ObjectNodesOk(data, node) ==
  /\ IsNode(node)
  /\ IF data.t = "dict"
     THEN /\ node.type = "object" /\ node.has_size
          /\ node.size = Cardinality(KeySet(data))
          /\ Len(node.properties) = Len(data.kv)
          /\ \A m \in 1..Len(data.kv) :
               /\ node.properties[m].k = data.kv[m].k
               /\ ObjectNodesOk(data.kv[m].v, node.properties[m].v)
     ELSE IF data.t = "list"
     THEN /\ node.type \in {"array", "list"}
          /\ Len(node.items) <= 1
          /\ Len(node.items) = 1 => (Len(data.kv) > 0 /\ ObjectNodesOk(data.kv[1].v, node.items[1]))
     ELSE node.type = data.t /\ Len(node.properties) = 0 /\ Len(node.items) = 0

C8_StructureOfObjects ==
  /\ (loaded # Unset /\ loaded.exc = "" /\ structure = Unset) => ENABLED Describe
  /\ structure # Unset => (structure.exc = "" /\ ObjectNodesOk(loaded.data, structure.node))

\* an object with a null property and a nested object with two keys was described
C8_Witness ==
  /\ Described /\ loaded.data.t = "dict" /\ structure.node.size = 2
  /\ \E m \in 1..2 : loaded.data.kv[m].v.t = "NoneType"
  /\ \E m \in 1..2 : structure.node.properties[m].v.type = "object"
                       /\ structure.node.properties[m].v.size = 2

(***************************************************************************)
(* C9: every array, whether the top-level value, an object property or an  *)
(* array element, is described by an array node whose size is the element  *)
(* count and whose items is present iff the array is non-empty, and then   *)
(* is the full recursive structure of element 0; so the depth of the tree  *)
(* equals the nesting depth of the value.                                  *)
(***************************************************************************)
RECURSIVE ArrayNodesOk(_, _)
ArrayNodesOk(data, node) ==
  IF data.t = "list"
  THEN /\ node.type = "array" /\ node.has_size /\ node.size = Len(data.kv)
       /\ Len(node.items) = (IF Len(data.kv) > 0 THEN 1 ELSE 0)
       /\ Len(data.kv) > 0 => ArrayNodesOk(data.kv[1].v, node.items[1])
  ELSE IF data.t = "dict"
  THEN /\ node.type = "object" /\ Len(node.properties) = Len(data.kv)
       /\ \A m \in 1..Len(data.kv) : ArrayNodesOk(data.kv[m].v, node.properties[m].v)
  ELSE node.type = data.t

Max(S) == IF S = {} THEN 0 ELSE CHOOSE x \in S : \A y \in S : y <= x

\* nesting depth of a JSON value: 0 for a scalar; arrays are sampled at element 0
RECURSIVE JsonDepth(_)
JsonDepth(data) ==
  IF data.t = "dict" THEN 1 + Max({JsonDepth(data.kv[m].v) : m \in 1..Len(data.kv)})
  ELSE IF data.t = "list" THEN 1 + (IF Len(data.kv) > 0 THEN JsonDepth(data.kv[1].v) ELSE 0)
  ELSE 0

RECURSIVE NodeDepth(_)
NodeDepth(node) ==
  IF Len(node.properties) > 0
  THEN 1 + Max({NodeDepth(node.properties[m].v) : m \in 1..Len(node.properties)})
  ELSE IF Len(node.items) > 0 THEN 1 + NodeDepth(node.items[1])
  ELSE IF node.has_size THEN 1 ELSE 0

C9_ArrayNodesDescribeElementZero ==
  Described =>
    /\ ArrayNodesOk(loaded.data, structure.node)
    /\ NodeDepth(structure.node) = JsonDepth(loaded.data)

(***************************************************************************)
(* C10 as stated: after construction a column is in numeric_columns iff    *)
(* every non-null cell of the column is a number (so a column whose cells  *)
(* are all null is numeric).                                               *)
(***************************************************************************)
Analyzed == analyzer # Unset /\ analyzer.exc = ""

IsNumber(cell) == cell.t \in {"int", "float"} /\ cell # NaN

AllNonNullAreNumbers(df, j) ==
  \A i \in 1..Len(df.rows) : isna(df.rows[i][j]) \/ IsNumber(df.rows[i][j])

C10_NumericIffNonNullNumbers ==
  Analyzed =>
    \A j \in 1..Len(analyzer.df.columns) :
      analyzer.df.columns[j] \in Range(analyzer.numeric_columns)
        <=> AllNonNullAreNumbers(analyzer.df, j)

(***************************************************************************)
(* C10 amended: after construction a column is in numeric_columns iff      *)
(* every non-null cell of the column is a number and at least one cell is  *)
(* a number or is null because its row's element lacks the key-path; a     *)
(* column whose cells are all JSON nulls is not numeric.  (Numbers are     *)
(* within 64 bits.)                                                        *)
(***************************************************************************)
C10_NumericIffNumbersOrMissing ==
  Analyzed =>
    /\ \A j \in 1..Len(analyzer.df.columns) :
         analyzer.df.columns[j] \in Range(analyzer.numeric_columns)
           <=> /\ AllNonNullAreNumbers(analyzer.df, j)
               /\ \E i \in 1..Len(analyzer.df.rows) :
                    IsNumber(analyzer.df.rows[i][j]) \/ analyzer.df.rows[i][j] = NaN
    /\ Range(analyzer.numeric_columns) \subseteq Range(analyzer.df.columns)
    /\ Cardinality(Range(analyzer.numeric_columns)) = Len(analyzer.numeric_columns)

\* an analyzer was built over two rows with a numeric column holding a number
\* and a JSON null
C10_Witness ==
  /\ Analyzed /\ Len(analyzer.df.rows) = 2
  /\ \E j \in 1..Len(analyzer.df.columns) :
       /\ analyzer.df.columns[j] \in Range(analyzer.numeric_columns)
       /\ {analyzer.df.rows[1][j], analyzer.df.rows[2][j]} = {JInt(1), JNull}

(***************************************************************************)
(* JSONDataAnalyzer queries.  A method call on self gives                  *)
(* [self, exc, msg, ret]: the object after the call, the exception raised  *)
(* ("" when it returns) with its message, and the value returned.          *)
(***************************************************************************)
Return(self, ret) == [self |-> self, exc |-> "", msg |-> "", ret |-> ret]

Raise(self, exc, msg) == [self |-> self, exc |-> exc, msg |-> msg, ret |-> <<>>]

\* the cells of the column named col
df_col(df, col) == column_cells(df, column_index(df, col))

\* get_basic_info (memory_usage, a byte count, is left out)
get_basic_info(self) ==
  Return(self, [shape |-> <<Len(self.df.rows), Len(self.df.columns)>>,
                columns |-> self.df.columns,
                numeric_columns |-> self.numeric_columns,
                categorical_columns |-> self.categorical_columns])

RECURSIVE SumN(_)
SumN(cells) == IF Len(cells) = 0 THEN 0 ELSE Head(cells).n + SumN(Tail(cells))

dropna(cells) == SelectSeq(cells, LAMBDA c : ~isna(c))

\* df[numeric_columns].describe(): per column the count of non-null cells,
\* the mean as the fraction sum/count, min and max (std and the quartiles,
\* floating-point values, are left out)
describe_column(cells) ==
  LET xs == dropna(cells)
      ns == {xs[i].n : i \in 1..Len(xs)}
  IN  [count |-> Len(xs), sum |-> SumN(xs),
       min |-> IF ns = {} THEN 0 ELSE CHOOSE x \in ns : \A y \in ns : x <= y,
       max |-> IF ns = {} THEN 0 ELSE CHOOSE x \in ns : \A y \in ns : y <= x]

get_summary_statistics(self) ==
  Return(self,
         IF Len(self.numeric_columns) > 0
         THEN [m \in 1..Len(self.numeric_columns) |->
                 [k |-> self.numeric_columns[m],
                  v |-> describe_column(df_col(self.df, self.numeric_columns[m]))]]
         ELSE <<>>)

\* equality of two cell values as Python's == and hash see them: True == 1
py_eq(a, b) ==
  IF a.t \in {"int", "bool"} /\ b.t \in {"int", "bool"} THEN a.n = b.n ELSE a = b

\* the distinct values of the cells with their counts, first seen first
RECURSIVE count_values(_, _)
count_values(cells, acc) ==
  IF Len(cells) = 0 THEN acc
  ELSE LET c == Head(cells)
       IN  count_values(Tail(cells),
             IF \E i \in 1..Len(acc) : py_eq(acc[i].value, c)
             THEN [i \in 1..Len(acc) |->
                     IF py_eq(acc[i].value, c)
                     THEN [value |-> acc[i].value, count |-> acc[i].count + 1]
                     ELSE acc[i]]
             ELSE Append(acc, [value |-> c, count |-> 1]))

\* sort_values(ascending=False), ties kept in their order
RECURSIVE sort_by_count(_)
sort_by_count(counts) ==
  IF Len(counts) = 0 THEN <<>>
  ELSE LET init   == sort_by_count(SubSeq(counts, 1, Len(counts) - 1))
           x      == counts[Len(counts)]
           before == SelectSeq(init, LAMBDA e : e.count >= x.count)
           after  == SelectSeq(init, LAMBDA e : e.count < x.count)
       IN  before \o <<x>> \o after

head(seq, n) == SubSeq(seq, 1, IF Len(seq) < n THEN Len(seq) ELSE n)

\* Series.value_counts() / Series.nunique(): TypeError for an unhashable cell
unhashable_cell(cells) == \E i \in 1..Len(cells) : ~isna(cells[i]) /\ ~hashable(cells[i])

value_counts(cells) == sort_by_count(count_values(dropna(cells), <<>>))

nunique(cells) == Len(count_values(dropna(cells), <<>>))

\* head(5) of value_counts in get_categorical_summary
TopValues == 5

UnableToCompute == [ok |-> FALSE, unique_values |-> 0, top_values |-> <<>>]

\* mutant: unhashable cells are skipped and the rest is counted
categorical_entry_skips_failure(cells) ==
  [ok |-> TRUE, unique_values |-> nunique(SelectSeq(cells, hashable)),
   top_values |-> head(value_counts(SelectSeq(cells, hashable)), TopValues)]

\* the entry of one column: the try block and its except branch
categorical_entry(cells) ==
  IF unhashable_cell(cells) THEN UnableToCompute
  ELSE [ok |-> TRUE, unique_values |-> nunique(cells),
        top_values |-> head(value_counts(cells), TopValues)]

get_categorical_summary(self) ==
  Return(self,
         [m \in 1..Len(self.categorical_columns) |->
            [k |-> self.categorical_columns[m],
             v |-> categorical_entry(df_col(self.df, self.categorical_columns[m]))]])

\* df.isnull().sum() of one column
\* mutant: only the cells of absent keys are counted
missing_count_nan_only(cells) == Len(SelectSeq(cells, LAMBDA c : c = NaN))

missing_count(cells) == Len(SelectSeq(cells, isna))

\* 100 * missing_data / len(df), as the fraction num/den
missing_percent(count, rows) == [num |-> 100 * count, den |-> rows]

get_missing_data_info(self) ==
  LET df   == self.df
      idx  == SelectSeq([j \in 1..Len(df.columns) |-> j],
                        LAMBDA j : missing_count(column_cells(df, j)) > 0)
  IN  Return(self,
             [m \in 1..Len(idx) |->
                [k |-> df.columns[idx[m]],
                 v |-> [missing_count |-> missing_count(column_cells(df, idx[m])),
                        missing_percent |->
                          missing_percent(missing_count(column_cells(df, idx[m])),
                                          Len(df.rows))]]])

(***************************************************************************)
(* DataFrame.corr(): Pearson correlation over the rows where both columns  *)
(* are non-null (min_periods = 1).  An entry is nan, or the number         *)
(* cov / sqrt(var) kept as the pair of integers cov = n*Sxy - Sx*Sy and    *)
(* var = (n*Sxx - Sx*Sx) * (n*Syy - Sy*Sy); it is nan when the divisor     *)
(* sqrt(var) is 0.                                                         *)
(***************************************************************************)
RECURSIVE SumProd(_, _)
SumProd(xs, ys) ==
  IF Len(xs) = 0 THEN 0 ELSE Head(xs).n * Head(ys).n + SumProd(Tail(xs), Tail(ys))

CorrNaN == [nan |-> TRUE, cov |-> 0, var |-> 0]

corr_entry(xcells, ycells) ==
  LET both == SelectSeq([i \in 1..Len(xcells) |-> i],
                        LAMBDA i : ~isna(xcells[i]) /\ ~isna(ycells[i]))
      xs   == [m \in 1..Len(both) |-> xcells[both[m]]]
      ys   == [m \in 1..Len(both) |-> ycells[both[m]]]
      nobs == Len(both)
      ssx  == nobs * SumProd(xs, xs) - SumN(xs) * SumN(xs)
      ssy  == nobs * SumProd(ys, ys) - SumN(ys) * SumN(ys)
      cov  == nobs * SumProd(xs, ys) - SumN(xs) * SumN(ys)
  IN  IF nobs < 1 THEN CorrNaN
      ELSE IF ssx * ssy = 0 THEN CorrNaN
      ELSE [nan |-> FALSE, cov |-> cov, var |-> ssx * ssy]

\* the lower triangle is computed and mirrored
corr(df, cols) ==
  [xi \in 1..Len(cols) |->
     [yi \in 1..Len(cols) |->
        IF yi <= xi THEN corr_entry(df_col(df, cols[xi]), df_col(df, cols[yi]))
        ELSE corr_entry(df_col(df, cols[yi]), df_col(df, cols[xi]))]]

CorrMatrix(cols, values) == [index |-> cols, values |-> values]

EmptyMatrix == CorrMatrix(<<>>, <<>>)

\* mutant: one numeric column is enough
get_correlation_matrix_from_one(self) ==
  Return(self,
         IF Len(self.numeric_columns) > 0
         THEN CorrMatrix(self.numeric_columns, corr(self.df, self.numeric_columns))
         ELSE EmptyMatrix)

get_correlation_matrix(self) ==
  Return(self,
         IF Len(self.numeric_columns) > 1
         THEN CorrMatrix(self.numeric_columns, corr(self.df, self.numeric_columns))
         ELSE EmptyMatrix)

\* df.dtypes.astype(str).to_dict()
get_column_types(self) ==
  Return(self, [j \in 1..Len(self.df.columns) |->
                  [k |-> self.df.columns[j], v |-> dtype(self.df, j)]])

\* the default n of get_data_sample
DefaultSample == 5

\* mutant: the sample replaces the analyzer's table
get_data_sample_in_place(self, n) ==
  [self |-> [self EXCEPT !.df = Table(self.df.columns, head(self.df.rows, n))],
   exc |-> "", msg |-> "", ret |-> Table(self.df.columns, head(self.df.rows, n))]

get_data_sample(self, n) == Return(self, Table(self.df.columns, head(self.df.rows, n)))

(***************************************************************************)
(* visualizer.JSONVisualizer.  self is [df]; an optional argument is       *)
(* None or Some(value).  plotly.express is outside the repository: a       *)
(* px.* call is kept as the description of the figure it is asked for.     *)
(***************************************************************************)
None == [some |-> FALSE, name |-> ""]

Some(x) == [some |-> TRUE, name |-> x]

\* the truth value of an optional string: None and "" are false
truthy(arg) == arg.some /\ arg.name # ""

JSONVisualizer(df) == [df |-> df]

in_columns(col, df) == \E j \in 1..Len(df.columns) : df.columns[j] = col

column_not_found(self, col) ==
  Raise(self, "ValueError", "Column '" \o col \o "' not found in DataFrame")

Figure(kind, x, y, color, title, data) ==
  [kind |-> kind, x |-> x, y |-> y, color |-> color, title |-> title, data |-> data]

\* title = default when title is None
title_or(title, default) == IF title.some THEN title.name ELSE default

create_histogram(self, column, title) ==
  IF ~in_columns(column, self.df) THEN column_not_found(self, column)
  ELSE Return(self, Figure("histogram", Some(column), None, None,
                           title_or(title, "Distribution of " \o column), self.df))

\* head(20) of value_counts in create_bar_chart
BarLimit == 20

create_bar_chart(self, column, title) ==
  IF ~in_columns(column, self.df) THEN column_not_found(self, column)
  ELSE IF unhashable_cell(df_col(self.df, column))
  THEN Raise(self, "TypeError", "unhashable type")
  ELSE Return(self, Figure("bar", Some(column), Some("Count"), None,
                           title_or(title, "Count of " \o column),
                           head(value_counts(df_col(self.df, column)), BarLimit)))

create_scatter_plot(self, x_column, y_column, color_column, title) ==
  IF ~in_columns(x_column, self.df) THEN column_not_found(self, x_column)
  ELSE IF ~in_columns(y_column, self.df) THEN column_not_found(self, y_column)
  ELSE IF truthy(color_column) /\ in_columns(color_column.name, self.df)
  THEN Return(self, Figure("scatter", Some(x_column), Some(y_column), color_column,
                           title_or(title, y_column \o " vs " \o x_column), self.df))
  ELSE Return(self, Figure("scatter", Some(x_column), Some(y_column), None,
                           title_or(title, y_column \o " vs " \o x_column), self.df))

create_box_plot(self, column, group_column, title) ==
  IF ~in_columns(column, self.df) THEN column_not_found(self, column)
  ELSE IF truthy(group_column) /\ in_columns(group_column.name, self.df)
  THEN Return(self, Figure("box", group_column, Some(column), None,
                           title_or(title, "Box plot of " \o column), self.df))
  ELSE Return(self, Figure("box", None, Some(column), None,
                           title_or(title, "Box plot of " \o column), self.df))

\* an optional list of column names
NoColumns == [some |-> FALSE, names |-> <<>>]

Columns(names) == [some |-> TRUE, names |-> names]

\* the columns of self.df[columns].select_dtypes(include=[np.number]):
\* a name occurring twice is selected twice
select_numeric(df, names) ==
  SelectSeq(names, LAMBDA col : dtype(df, column_index(df, col)) \in np_number)

create_correlation_heatmap(self, columns, title) ==
  IF columns.some /\ Len(columns.names) > 0
        /\ \E m \in 1..Len(columns.names) : ~in_columns(columns.names[m], self.df)
  THEN Raise(self, "KeyError", "not in index")
  ELSE LET numeric == IF columns.some /\ Len(columns.names) > 0
                      THEN select_numeric(self.df, columns.names)
                      ELSE select_dtypes(self.df, np_number)
       IN  IF Len(self.df.rows) = 0 \/ Len(numeric) < 2
           THEN Raise(self, "ValueError",
                      "Not enough numeric columns for correlation heatmap")
           ELSE Return(self, Figure("imshow", None, None, None,
                                    title_or(title, "Correlation Heatmap"),
                                    CorrMatrix(numeric, corr(self.df, numeric))))

create_line_chart(self, x_column, y_column, title) ==
  IF ~in_columns(x_column, self.df) THEN column_not_found(self, x_column)
  ELSE IF ~in_columns(y_column, self.df) THEN column_not_found(self, y_column)
  ELSE Return(self, Figure("line", Some(x_column), Some(y_column), None,
                           title_or(title, y_column \o " over " \o x_column), self.df))

\* head(15) of value_counts in create_pie_chart
PieLimit == 15

create_pie_chart(self, column, title) ==
  IF ~in_columns(column, self.df) THEN column_not_found(self, column)
  ELSE IF unhashable_cell(df_col(self.df, column))
  THEN Raise(self, "TypeError", "unhashable type")
  ELSE Return(self, Figure("pie", Some(column), None, None,
                           title_or(title, "Distribution of " \o column),
                           head(value_counts(df_col(self.df, column)), PieLimit)))

(***************************************************************************)
(* The analysis session of app.py: the document is loaded, the table,      *)
(* the analyzer and the visualizer are constructed, and then queries and   *)
(* chart requests are made in any order, any number of times.              *)
(*                                                                         *)
(* The documents are arrays of objects:                                    *)
(*   - one column "a" holding a run of equal scalars followed by a tail    *)
(*     of arrays, strings and nulls;                                       *)
(*   - one column "a" holding distinct strings followed by repetitions;    *)
(*   - two columns "a", "b" of numbers, "b" sometimes absent and "a" then  *)
(*     sometimes null;                                                     *)
(*   - three columns, the third one named "".                              *)
(***************************************************************************)
MaxTail == 2

MaxPairs == 2

Prefix(u, p) == [i \in 1..p |-> u]

ColumnA(cells) == JArr([i \in 1..Len(cells) |-> JObj(<<[k |-> "a", v |-> cells[i]]>>)])

RunCells ==
  {Prefix(u, p) \o t :
     u \in {JStr("x"), JBool(TRUE), JInt(1)},
     p \in {0, 1, SampleSize - 1, SampleSize},
     t \in SeqsUpTo({JArr(<<JInt(1)>>), JStr("y"), JNull}, MaxTail)}

Letters == <<JStr("p"), JStr("q"), JStr("r"), JStr("s"), JStr("t"), JStr("u")>>

DistinctCells ==
  {SubSeq(Letters, 1, k) \o t :
     k \in {TopValues, TopValues + 1},
     t \in SeqsUpTo({JStr("u"), JBool(TRUE), JInt(1)}, MaxTail)}

PairObjects ==
  ObjectsOver(<<"a", "b">>, {JInt(1), JInt(2)}) \cup ObjectsOver(<<"a">>, {JInt(1), JNull})

EmptyKeyObjects ==
  {JObj(<<[k |-> "a", v |-> JInt(1)], [k |-> "b", v |-> JInt(2)], [k |-> "", v |-> x]>>) :
     x \in {JStr("x"), JArr(<<JInt(1)>>)}}

AnalysisValues ==
  {ColumnA(cells) : cells \in RunCells \cup DistinctCells}
    \cup {JArr(rows) : rows \in SeqsUpTo(PairObjects, MaxPairs)}
    \cup {JArr(<<o, o>>) : o \in EmptyKeyObjects}

\* a column name that no table has
Absent == "zzz"

ColumnArgs(df) == Range(df.columns) \cup {Absent}

\* titles are given to the one-column charts; the others get their default
Titles == {None, Some("t")}

AnalysisInit ==
  /\ source \in {Src("file", 64, "json", d) : d \in AnalysisValues}
  /\ valid = validate_json_format(source)
  /\ loaded = load_json_file(source)
  /\ structure = [exc |-> "", node |-> get_json_structure(loaded.data, "")]
  /\ table = json_to_dataframe(loaded.data)
  /\ analyzer = JSONDataAnalyzer(loaded.data)
  /\ call = NoCall

Called(op, args, r) ==
  [op |-> op, args |-> args, exc |-> r.exc, msg |-> r.msg, ret |-> r.ret]

\* a call on the analyzer
Query(op, args, r) ==
  /\ analyzer' = r.self
  /\ call' = Called(op, args, r)
  /\ UNCHANGED <<source, valid, loaded, structure, table>>

\* a call on the visualizer, which holds the table
Chart(op, args, r) ==
  /\ table' = [table EXCEPT !.df = r.self.df]
  /\ call' = Called(op, args, r)
  /\ UNCHANGED <<source, valid, loaded, structure, analyzer>>

\* _get_numeric_columns and _get_categorical_columns run again
Classify ==
  Query("classify", <<>>,
        Return(analyzer, [numeric_columns |-> get_numeric_columns(analyzer.df),
                          categorical_columns |-> get_categorical_columns(analyzer.df)]))

BasicInfo == Query("get_basic_info", <<>>, get_basic_info(analyzer))

SummaryStatistics == Query("get_summary_statistics", <<>>, get_summary_statistics(analyzer))

CategoricalSummary == Query("get_categorical_summary", <<>>, get_categorical_summary(analyzer))

MissingDataInfo == Query("get_missing_data_info", <<>>, get_missing_data_info(analyzer))

CorrelationMatrix == Query("get_correlation_matrix", <<>>, get_correlation_matrix(analyzer))

ColumnTypes == Query("get_column_types", <<>>, get_column_types(analyzer))

DataSample ==
  \E n \in {1, DefaultSample} :
    Query("get_data_sample", [n |-> n], get_data_sample(analyzer, n))

Histogram ==
  \E column \in ColumnArgs(table.df), title \in Titles :
    Chart("create_histogram", [column |-> column, title |-> title],
          create_histogram(JSONVisualizer(table.df), column, title))

BarChart ==
  \E column \in ColumnArgs(table.df), title \in Titles :
    Chart("create_bar_chart", [column |-> column, title |-> title],
          create_bar_chart(JSONVisualizer(table.df), column, title))

ScatterPlot ==
  \E x \in ColumnArgs(table.df), y \in ColumnArgs(table.df),
     color \in {None} \cup {Some(c) : c \in ColumnArgs(table.df)} :
    Chart("create_scatter_plot",
          [x_column |-> x, y_column |-> y, color_column |-> color, title |-> None],
          create_scatter_plot(JSONVisualizer(table.df), x, y, color, None))

BoxPlot ==
  \E column \in ColumnArgs(table.df),
     group \in {None} \cup {Some(c) : c \in ColumnArgs(table.df)} :
    Chart("create_box_plot",
          [column |-> column, group_column |-> group, title |-> None],
          create_box_plot(JSONVisualizer(table.df), column, group, None))

CorrelationHeatmap ==
  \E columns \in {NoColumns} \cup {Columns(ns) : ns \in SeqsUpTo(ColumnArgs(table.df), 2)} :
    Chart("create_correlation_heatmap", [columns |-> columns, title |-> None],
          create_correlation_heatmap(JSONVisualizer(table.df), columns, None))

LineChart ==
  \E x \in ColumnArgs(table.df), y \in ColumnArgs(table.df) :
    Chart("create_line_chart", [x_column |-> x, y_column |-> y, title |-> None],
          create_line_chart(JSONVisualizer(table.df), x, y, None))

PieChart ==
  \E column \in ColumnArgs(table.df), title \in Titles :
    Chart("create_pie_chart", [column |-> column, title |-> title],
          create_pie_chart(JSONVisualizer(table.df), column, title))

AnalysisNext ==
  \/ Classify \/ BasicInfo \/ SummaryStatistics \/ CategoricalSummary
  \/ MissingDataInfo \/ CorrelationMatrix \/ ColumnTypes \/ DataSample
  \/ Histogram \/ BarChart \/ ScatterPlot \/ BoxPlot
  \/ CorrelationHeatmap \/ LineChart \/ PieChart

AnalysisSpec == AnalysisInit /\ [][AnalysisNext]_vars

(***************************************************************************)
(* C11: which columns are Categorical.                                     *)
(***************************************************************************)
\* the first n non-null cells of a column
RECURSIVE FirstNonNull(_, _)
FirstNonNull(cells, n) ==
  IF n = 0 \/ Len(cells) = 0 THEN <<>>
  ELSE IF isna(Head(cells)) THEN FirstNonNull(Tail(cells), n)
  ELSE <<Head(cells)>> \o FirstNonNull(Tail(cells), n - 1)

ScalarSample(cells) ==
  \A c \in Range(FirstNonNull(cells, SampleSize)) : IsScalar(c)

OnlyOfType(cells, t) == Len(cells) > 0 /\ \A i \in 1..Len(cells) : cells[i].t = t

Numeric(col) == col \in Range(analyzer.numeric_columns)

Categorical(col) == col \in Range(analyzer.categorical_columns)

ListsDisjointSubsets ==
  /\ Range(analyzer.numeric_columns) \cap Range(analyzer.categorical_columns) = {}
  /\ Range(analyzer.numeric_columns) \subseteq Range(analyzer.df.columns)
  /\ Range(analyzer.categorical_columns) \subseteq Range(analyzer.df.columns)

NonNull(cells) == {cells[i] : i \in {i \in 1..Len(cells) : ~isna(cells[i])}}

SameValue(a, b) ==
  \/ a = b
  \/ a.t \in {"int", "bool"} /\ b.t \in {"int", "bool"} /\ a.n = b.n

\* how many cells hold the value v
Occurrences(cells, v) ==
  Cardinality({i \in 1..Len(cells) : ~isna(cells[i]) /\ SameValue(cells[i], v)})

\* the number of distinct values of a set of scalar cells
DistinctCount(S) ==
  Cardinality({{w \in S : SameValue(v, w)} : v \in S})

Min(a, b) == IF a < b THEN a ELSE b

CountingFails(cells) == \E c \in NonNull(cells) : ~IsScalar(c)

\* the entry of a column that can be counted: the number of distinct
\* non-null values, and the min(5, distinct) most frequent values, each once
\* and with its count
CountedEntry(entry, cells) ==
  /\ entry.ok
  /\ entry.unique_values = DistinctCount(NonNull(cells))
  /\ Len(entry.top_values) = Min(TopValues, DistinctCount(NonNull(cells)))
  /\ \A m \in 1..Len(entry.top_values) :
       /\ entry.top_values[m].value \in NonNull(cells)
       /\ entry.top_values[m].count = Occurrences(cells, entry.top_values[m].value)
       /\ \A k \in 1..Len(entry.top_values) :
            (k # m) => ~SameValue(entry.top_values[k].value, entry.top_values[m].value)
       /\ \A v \in NonNull(cells) :
            \/ \E k \in 1..Len(entry.top_values) : SameValue(entry.top_values[k].value, v)
            \/ Occurrences(cells, v) <= entry.top_values[m].count

\* C12: get_categorical_summary never raises and returns one entry per
\* column of categorical_columns; the entry is the 'unavailable' marker when
\* counting fails (the column holds an array or object), and otherwise holds
\* the number of distinct non-null values and the at most 5 most frequent
\* values with their counts
C12_SummaryPerCategoricalColumn ==
  (call.op = "get_categorical_summary") =>
    /\ call.exc = ""
    /\ Len(call.ret) = Len(analyzer.categorical_columns)
    /\ \A m \in 1..Len(call.ret) :
         LET cells == column_cells(analyzer.df, ColumnOf(analyzer.df, call.ret[m].k))
         IN  /\ call.ret[m].k = analyzer.categorical_columns[m]
             /\ IF CountingFails(cells)
                THEN call.ret[m].v = [ok |-> FALSE, unique_values |-> 0, top_values |-> <<>>]
                ELSE CountedEntry(call.ret[m].v, cells)

\* the summary holds the 'unavailable' marker for a column classified from
\* five scalars and holding an array later
C12_Witness ==
  /\ call.op = "get_categorical_summary"
  /\ \E m \in 1..Len(call.ret) :
       /\ ~call.ret[m].v.ok
       /\ Len(column_cells(analyzer.df, ColumnOf(analyzer.df, call.ret[m].k))) > SampleSize

\* the summary of a column with more than 5 distinct values
C12_TruncatedWitness ==
  /\ call.op = "get_categorical_summary"
  /\ \E m \in 1..Len(call.ret) :
       call.ret[m].v.ok /\ call.ret[m].v.unique_values > Len(call.ret[m].v.top_values)

(***************************************************************************)
(* C13: chart requests and their column arguments.                         *)
(***************************************************************************)
OneColumnCharts == {"create_histogram", "create_bar_chart", "create_box_plot", "create_pie_chart"}

TwoColumnCharts == {"create_scatter_plot", "create_line_chart"}

\* the required column names of the chart request recorded in call
Required ==
  IF call.op \in OneColumnCharts THEN {call.args.column}
  ELSE {call.args.x_column, call.args.y_column}

InTable(name) == name \in Range(table.df.columns)

ColumnNotFound ==
  /\ call.exc = "ValueError"
  /\ \E name \in Required :
       ~InTable(name) /\ call.msg = "Column '" \o name \o "' not found in DataFrame"

\* the optional column of a scatter or box request shows in the figure
\* exactly when it is supplied and names a column of the table
OptionalApplied ==
  /\ call.op = "create_scatter_plot" =>
       call.ret.color = IF call.args.color_column.some /\ InTable(call.args.color_column.name)
                        THEN call.args.color_column ELSE None
  /\ call.op = "create_box_plot" =>
       call.ret.x = IF call.args.group_column.some /\ InTable(call.args.group_column.name)
                    THEN call.args.group_column ELSE None

\* C13: a chart request (histogram, bar, scatter, box, line, pie) fails with
\* ColumnNotFound when a required column is absent and does not fail when
\* they are all present; an optional color/group column is applied when it
\* names a column of the table and ignored otherwise, never causing a failure
C13_ChartsFailOnlyWithColumnNotFound ==
  (call.op \in OneColumnCharts \cup TwoColumnCharts) =>
    IF \E name \in Required : ~InTable(name)
    THEN ColumnNotFound
    ELSE call.exc = "" /\ OptionalApplied

(***************************************************************************)
(* C14: the correlation heatmap and its column subset.                     *)
(***************************************************************************)
\* the Numeric columns of the visualizer's table
NumericInTable ==
  {table.df.columns[j] : j \in
     {j \in 1..Len(table.df.columns) :
        /\ AllNonNullAreNumbers(table.df, j)
        /\ \E i \in 1..Len(table.df.rows) :
             IsNumber(table.df.rows[i][j]) \/ table.df.rows[i][j] = NaN}}

\* the columns that qualify for the heatmap request recorded in call
Qualifying ==
  IF call.args.columns.some
  THEN Range(call.args.columns.names) \cap NumericInTable
  ELSE NumericInTable

InsufficientNumericColumns ==
  /\ call.exc = "ValueError"
  /\ call.msg = "Not enough numeric columns for correlation heatmap"

\* C14: create_correlation_heatmap correlates exactly the Numeric columns
\* within the given subset (all Numeric columns when none is given) and fails
\* with InsufficientNumericColumns exactly when fewer than 2 qualify, for
\* every subset: the empty one, one numeric column, one naming an absent
\* column (which fails with ColumnNotFound or InsufficientNumericColumns)
C14_HeatmapOverNumericSubset ==
  (call.op = "create_correlation_heatmap") =>
    /\ call.exc \in {"", "ValueError"}
    /\ call.exc = "" => Range(call.ret.data.index) = Qualifying
    /\ (\A name \in Range(call.args.columns.names) : InTable(name))
         => (InsufficientNumericColumns <=> Cardinality(Qualifying) < 2)

(***************************************************************************)
(* C15: the missing-data report.                                           *)
(***************************************************************************)
\* the number of null cells (JSON null or absent key) of column j
NullCount(df, j) ==
  Cardinality({i \in 1..Len(df.rows) : df.rows[i][j].t = "NoneType" \/ df.rows[i][j] = NaN})

ColumnsWithNulls(df) ==
  {df.columns[j] : j \in {j \in 1..Len(df.columns) : NullCount(df, j) > 0}}

\* C15: get_missing_data_info returns one entry exactly for the columns with
\* at least one null cell, with missing_count the number of null cells and
\* missing_percent = 100 * missing_count / rows; it returns an empty result,
\* without error, when no column has a null, a table of zero rows included
C15_MissingDataPerNullColumn ==
  (call.op = "get_missing_data_info") =>
    /\ call.exc = ""
    /\ {call.ret[m].k : m \in 1..Len(call.ret)} = ColumnsWithNulls(analyzer.df)
    /\ Len(call.ret) = Cardinality(ColumnsWithNulls(analyzer.df))
    /\ \A m \in 1..Len(call.ret) :
         LET nulls == NullCount(analyzer.df, ColumnOf(analyzer.df, call.ret[m].k))
         IN  /\ call.ret[m].v.missing_count = nulls
             /\ call.ret[m].v.missing_percent.num = 100 * nulls
             /\ call.ret[m].v.missing_percent.den = Len(analyzer.df.rows)

\* the report of a table of 2 or more columns has an entry for a column
\* holding a null and a non-null cell, and none for another column
C15_Witness ==
  /\ call.op = "get_missing_data_info"
  /\ Len(call.ret) > 0
  /\ Len(call.ret) < Len(analyzer.df.columns)
  /\ \E m \in 1..Len(call.ret) :
       call.ret[m].v.missing_count < Len(analyzer.df.rows)

\* the report of a table of zero rows is empty
C15_EmptyTableWitness ==
  /\ call.op = "get_missing_data_info"
  /\ Len(analyzer.df.rows) = 0
  /\ call.ret = <<>>

(***************************************************************************)
(* C16: the correlation matrix.                                            *)
(***************************************************************************)
\* the entry cov / sqrt(var) is the number 1.0
IsOne(entry) == ~entry.nan /\ entry.cov > 0 /\ entry.cov * entry.cov = entry.var

IsNaN(entry) == entry.nan

\* column col holds two non-null cells of different values
Varies(df, col) ==
  LET j == ColumnOf(df, col)
  IN  \E i, k \in 1..Len(df.rows) :
        /\ IsNumber(df.rows[i][j])
        /\ IsNumber(df.rows[k][j])
        /\ df.rows[i][j].n # df.rows[k][j].n

\* empty exactly when fewer than 2 columns are numeric; otherwise square,
\* indexed by the numeric columns, and symmetric
SquareSymmetric(m) ==
  /\ (m = [index |-> <<>>, values |-> <<>>]) <=> Len(analyzer.numeric_columns) < 2
  /\ Len(analyzer.numeric_columns) >= 2 =>
       /\ m.index = analyzer.numeric_columns
       /\ Len(m.values) = Len(m.index)
       /\ \A xi \in 1..Len(m.index) :
            /\ Len(m.values[xi]) = Len(m.index)
            /\ \A yi \in 1..Len(m.index) : m.values[xi][yi] = m.values[yi][xi]

ChartOps ==
  {"create_histogram", "create_bar_chart", "create_scatter_plot", "create_box_plot",
   "create_correlation_heatmap", "create_line_chart", "create_pie_chart"}

\* what the query op returns on the analyzer as constructed
FirstResult(op) ==
  LET fresh == JSONDataAnalyzer(loaded.data)
  IN  CASE op = "get_basic_info" -> get_basic_info(fresh).ret
        [] op = "get_summary_statistics" -> get_summary_statistics(fresh).ret
        [] op = "get_categorical_summary" -> get_categorical_summary(fresh).ret
        [] op = "get_missing_data_info" -> get_missing_data_info(fresh).ret
        [] op = "get_correlation_matrix" -> get_correlation_matrix(fresh).ret
        [] op = "get_column_types" -> get_column_types(fresh).ret

NoArgQueries ==
  {"get_basic_info", "get_summary_statistics", "get_categorical_summary",
   "get_missing_data_info", "get_correlation_matrix", "get_column_types"}

\* C17: after any sequence of analyzer queries and chart requests, failing
\* ones included, the visualizer's table and the analyzer's table,
\* numeric_columns and categorical_columns are what construction made them;
\* a query returns what it returns when made first, and running the
\* classification again gives the same two lists
C17_QueriesAndChartsChangeNothing ==
  /\ call.op \in NoArgQueries => call.ret = FirstResult(call.op)
  /\ table = json_to_dataframe(loaded.data)
  /\ analyzer = JSONDataAnalyzer(loaded.data)
  /\ get_numeric_columns(analyzer.df) = analyzer.numeric_columns
  /\ get_categorical_columns(analyzer.df) = analyzer.categorical_columns
  /\ call.op = "classify" =>
       /\ call.ret.numeric_columns = JSONDataAnalyzer(loaded.data).numeric_columns
       /\ call.ret.categorical_columns = JSONDataAnalyzer(loaded.data).categorical_columns

\* a chart request has just failed on a table that has rows
C17_Witness ==
  /\ call.op \in ChartOps
  /\ call.exc = "ValueError"
  /\ Len(table.df.rows) > 0
  /\ Len(analyzer.df.rows) > 0

====
